---- MODULE Spec2Model ----
(***************************************************************************)
(* Model of the GitHub webhook plugin (src/src/plugin.ts): the event       *)
(* normalisation done by PluginGithub.handleWebhookEvent, the envelope it  *)
(* hands to runtime.createEvent, and the listener started by               *)
(* PluginGithub.githubWebhookEventTrigger.                                 *)
(***************************************************************************)
EXTENDS Integers, Sequences, FiniteSets, TLC

(***************************************************************************)
(* Bounds of the model.                                                    *)
(***************************************************************************)
MaxCommits == 2
NumRequests == 2
MaxNow == 1
MaxStarts == 2

(***************************************************************************)
(* JavaScript values.  A value that may be undefined is a set with at most *)
(* one element: {} is undefined, {v} is the value v.  An object is a       *)
(* record whose fields are such sets.                                      *)
(***************************************************************************)
Maybe(S) == {{}} \cup {{v} : v \in S}

Val(m) == CHOOSE v \in m : TRUE

\* The result of evaluating an expression: ok = FALSE is a thrown TypeError.
Root(o) == [ok |-> TRUE, v |-> {o}]

\* e.k : property access, throws when e is undefined.
Dot(e, k) ==
  IF ~e.ok THEN e
  ELSE IF e.v = {} THEN [ok |-> FALSE, v |-> {}]
  ELSE [ok |-> TRUE, v |-> Val(e.v)[k]]

\* e.k written where the code has e?.k.
PlainChain(e, k) == Dot(e, k)

\* e?.k : optional chaining, undefined when e is undefined.
Opt(e, k) ==
  IF ~e.ok THEN e
  ELSE IF e.v = {} THEN [ok |-> TRUE, v |-> {}]
  ELSE [ok |-> TRUE, v |-> Val(e.v)[k]]

(***************************************************************************)
(* Webhook payloads (the parts of PullRequestEvent, PushEvent and          *)
(* ReleaseEvent that handleWebhookEvent reads), every field optional.      *)
(***************************************************************************)
SeqsUpTo(S, n) == UNION {[1..k -> S] : k \in 0..n}

UserSet == [login : Maybe({"alice"})]
RepositorySet == [full_name : Maybe({"org/repo"})]
PullRequestSet ==
  [title : Maybe({"Fix bug"}), body : Maybe({"pr text"}),
   user : Maybe(UserSet), merged : Maybe(BOOLEAN)]
PullRequestPayloads ==
  [action : Maybe({"opened"}), number : Maybe({42}),
   pull_request : Maybe(PullRequestSet), repository : Maybe(RepositorySet)]

AuthorSet == [name : Maybe({"bob"})]
CommitSet == [id : Maybe({"a1", "b2"}), message : Maybe({"init"}), author : Maybe(AuthorSet)]
PusherSet == [name : Maybe({"dave"})]
PushPayloads ==
  [ref : Maybe({"refs/heads/main"}), repository : Maybe(RepositorySet),
   pusher : Maybe(PusherSet), commits : Maybe(SeqsUpTo(CommitSet, MaxCommits))]

ReleaseAuthorSet == [login : Maybe({"carol"})]
ReleaseSet ==
  [tag_name : Maybe({"v1.0"}), name : Maybe({"V1"}),
   author : Maybe(ReleaseAuthorSet), body : Maybe({"notes"})]
ReleasePayloads ==
  [action : Maybe({"published"}), release : Maybe(ReleaseSet),
   repository : Maybe(RepositorySet)]

IssuesPayloads == [action : Maybe({"labeled"})]

SupportedKinds == {"pull_request", "push", "release"}
EventKinds == SupportedKinds \cup {"issues"}

PayloadsOf(kind) ==
  CASE kind = "pull_request" -> PullRequestPayloads
    [] kind = "push" -> PushPayloads
    [] kind = "release" -> ReleasePayloads
    [] OTHER -> IssuesPayloads

(***************************************************************************)
(* The switch of handleWebhookEvent: the record `data` built per kind.     *)
(* The result is [threw, data]: data = {} when no record is built.         *)
(***************************************************************************)
\* One element of commits.map(...): {id, message, author: commit.author?.name}
MapCommit(commit) ==
  [id |-> Dot(Root(commit), "id"),
   message |-> Dot(Root(commit), "message"),
   author |-> Opt(Dot(Root(commit), "author"), "name")]

\* payload.commits?.length ? payload.commits.map(...) : undefined
EmptyIsFalsyMapCommits(e) ==
  IF ~e.ok THEN e
  ELSE IF e.v = {} \/ Len(Val(e.v)) = 0 THEN [ok |-> TRUE, v |-> {}]
  ELSE [ok |-> TRUE,
        v |-> {[i \in 1..Len(Val(e.v)) |->
                 [f \in {"id", "message", "author"} |-> MapCommit(Val(e.v)[i])[f].v]]}]

\* payload.commits?.map(...)
MapCommits(e) ==
  IF ~e.ok THEN e
  ELSE IF e.v = {} THEN [ok |-> TRUE, v |-> {}]
  ELSE [ok |-> TRUE,
        v |-> {[i \in 1..Len(Val(e.v)) |->
                 [f \in {"id", "message", "author"} |-> MapCommit(Val(e.v)[i])[f].v]]}]

\* The property expressions of the object literal of each case.
DataExprs(kind, payload) ==
  CASE kind = "pull_request" ->
         [action |-> Dot(Root(payload), "action"),
          prNumber |-> Dot(Root(payload), "number"),
          prTitle |-> Opt(Dot(Root(payload), "pull_request"), "title"),
          prBody |-> Opt(Dot(Root(payload), "pull_request"), "body"),
          author |-> Opt(Opt(Dot(Root(payload), "pull_request"), "user"), "login"),
          merged |-> Opt(Dot(Root(payload), "pull_request"), "merged"),
          repository |-> Opt(Dot(Root(payload), "repository"), "full_name")]
    [] kind = "push" ->
         [ref |-> Dot(Root(payload), "ref"),
          repository |-> Opt(Dot(Root(payload), "repository"), "full_name"),
          pusher |-> Opt(Dot(Root(payload), "pusher"), "name"),
          commits |-> MapCommits(Dot(Root(payload), "commits"))]
    [] kind = "release" ->
         [action |-> Dot(Root(payload), "action"),
          releaseTag |-> Opt(Dot(Root(payload), "release"), "tag_name"),
          releaseName |-> Opt(Dot(Root(payload), "release"), "name"),
          releasedBy |-> Opt(Opt(Dot(Root(payload), "release"), "author"), "login"),
          repository |-> Opt(Dot(Root(payload), "repository"), "full_name"),
          releaseBody |-> Opt(Dot(Root(payload), "release"), "body")]

Normalize(kind, payload) ==
  IF kind \notin SupportedKinds
  THEN [threw |-> FALSE, data |-> {}]
  ELSE LET ex == DataExprs(kind, payload)
       IN IF \E f \in DOMAIN ex : ~ex[f].ok
          THEN [threw |-> TRUE, data |-> {}]
          ELSE [threw |-> FALSE, data |-> {[f \in DOMAIN ex |-> ex[f].v]}]

(***************************************************************************)
(* JSON.stringify(data): properties whose value is undefined are left out, *)
(* also inside the elements of commits; JSON.stringify(undefined) is       *)
(* undefined.                                                              *)
(***************************************************************************)
StripUndefined(obj) ==
  [k \in {j \in DOMAIN obj : obj[j] # {}} |-> Val(obj[k])]

Stringify(data) ==
  IF data = {} THEN {}
  ELSE LET d == Val(data)
       IN {[k \in {j \in DOMAIN d : d[j] # {}} |->
              IF k = "commits"
              THEN [i \in 1..Len(Val(d[k])) |-> StripUndefined(Val(d[k])[i])]
              ELSE Val(d[k])]}

(***************************************************************************)
(* The envelope handed to runtime.createEvent.                             *)
(***************************************************************************)
PluginId == "plugin-github"

\* `github-${event.name}-${Date.now()}`: the three parts of the template.
EnvelopeId(name, deliveryId, t) == <<"github", name, t>>

\* The timestamp property, a second reading of the same clock, is left out.
EventContext(name, deliveryId, t, data) ==
  [id |-> EnvelopeId(name, deliveryId, t),
   pluginId |-> PluginId,
   type |-> "user_input",
   action |-> "receive_github_webhook",
   content |-> Stringify(data),
   rawMessage |-> Stringify(data),
   user |-> "webhook",
   helpfulInstruction |-> "This is a webhook event payload from Github. "]

\* metadata: { payload: event.payload }
RawPayloadPlatformContext(name, deliveryId, payload, data) ==
  [platform |-> "github", metadata |-> [payload |-> {payload}]]

\* The responseHandler property, a callback that only logs, is left out.
PlatformContext(name, deliveryId, payload, data) ==
  [platform |-> "github", metadata |-> [payload |-> data]]

\* A default case that only warns and falls out of the switch.
MissingReturn(name) == FALSE

\* default: { log.warn(...); return; }
SwitchReturns(name) == name \notin SupportedKinds

\* A catch block that makes the call once more.
RetryingTryCreateEvent(env, throwsSync) ==
  IF throwsSync
  THEN [calls |-> <<env, env>>, logged |-> TRUE, promise |-> "pending"]
  ELSE [calls |-> <<env>>, logged |-> FALSE, promise |-> "pending"]

\* try { this.runtime.createEvent(..) } catch (error) { log.error(..) }
\* The call either throws before it returns, or returns a promise.
TryCreateEvent(env, throwsSync) ==
  IF throwsSync
  THEN [calls |-> <<env>>, logged |-> TRUE, promise |-> "threw"]
  ELSE [calls |-> <<env>>, logged |-> FALSE, promise |-> "pending"]

\* An async handler that awaits the createEvent promise.
AwaitedReturn(promise) == promise = "pending"

\* handleWebhookEvent(..): void -- the promise of createEvent is neither
\* awaited nor returned, so the caller of the handler has nothing to wait for.
ReturnsPromise(promise) == FALSE

(***************************************************************************)
(* The node middleware of the webhooks library, wired in at                *)
(* createServer(createNodeMiddleware(this.webhooks, ..)).                  *)
(***************************************************************************)
SigCases == {"absent", "mismatch", "valid"}

Verify(sig) == sig = "valid"

AuthErrorStatus == 401
SuccessStatus == 200
InternalErrorStatus == 500

(***************************************************************************)
(* State.                                                                  *)
(***************************************************************************)
Requests == 1..NumRequests

VARIABLES
  server,     \* this.server: 0 is undefined, n is the n-th server created
  created,    \* number of servers made by createServer
  listening,  \* the servers on which listen(port) was called
  now,        \* the last value Date.now() returned
  phase,      \* per request: where its handling stands
  req,        \* per request: {} before it arrives, else {[sig, name, payload]}
  built,      \* per request: the record `data` built by the handler
  calls,      \* per request: the createEvent calls made, in order
  promise,    \* per request: state of what createEvent returned
  waits,      \* per request: the middleware waits for the handler's promise
  responses,  \* per request: the HTTP statuses sent, in order
  errorLog,   \* requests for which log.error(.., "Error processing ..") ran
  unhandled,  \* requests whose createEvent rejection nobody handles
  nKind,      \* normaliser run: the event kind of the input
  nPayload,   \* normaliser run: the payload of the input
  nResult     \* normaliser run: {} before the run, {Normalize(..)} after

listenerVars ==
  <<server, created, listening, now, phase, req, built, calls, promise,
    waits, responses, errorLog, unhandled>>
normalizeVars == <<nKind, nPayload, nResult>>
vars == <<listenerVars, normalizeVars>>

\* Payloads the listener is driven with: per kind a complete one.
FullPayload(name) ==
  CASE name = "pull_request" ->
         [action |-> {"opened"}, number |-> {42},
          pull_request |-> {[title |-> {"Fix bug"}, body |-> {"pr text"},
                             user |-> {[login |-> {"alice"}]}, merged |-> {FALSE}]},
          repository |-> {[full_name |-> {"org/repo"}]}]
    [] name = "push" ->
         [ref |-> {"refs/heads/main"}, repository |-> {[full_name |-> {"org/repo"}]},
          pusher |-> {[name |-> {"dave"}]},
          commits |-> {<<[id |-> {"a1"}, message |-> {"init"},
                          author |-> {[name |-> {"bob"}]}]>>}]
    [] name = "release" ->
         [action |-> {"published"},
          release |-> {[tag_name |-> {"v1.0"}, name |-> {"V1"},
                        author |-> {[login |-> {"carol"}]}, body |-> {"notes"}]},
          repository |-> {[full_name |-> {"org/repo"}]}]
    [] OTHER -> [action |-> {"labeled"}]

EmptyPayload(name) ==
  CASE name = "pull_request" ->
         [action |-> {}, number |-> {}, pull_request |-> {}, repository |-> {}]
    [] name = "push" -> [ref |-> {}, repository |-> {}, pusher |-> {}, commits |-> {}]
    [] name = "release" -> [action |-> {}, release |-> {}, repository |-> {}]
    [] OTHER -> [action |-> {}]

ListenerPayloads(name) == {FullPayload(name)}

InitListener ==
  /\ server = 0
  /\ created = 0
  /\ listening = {}
  /\ now = 0
  /\ phase = [r \in Requests |-> "idle"]
  /\ req = [r \in Requests |-> {}]
  /\ built = [r \in Requests |-> {}]
  /\ calls = [r \in Requests |-> <<>>]
  /\ promise = [r \in Requests |-> "none"]
  /\ waits = [r \in Requests |-> FALSE]
  /\ responses = [r \in Requests |-> <<>>]
  /\ errorLog = {}
  /\ unhandled = {}

InitIdleNormalize ==
  /\ nKind = "issues"
  /\ nPayload = EmptyPayload("issues")
  /\ nResult = {}

Init == InitListener /\ InitIdleNormalize

(***************************************************************************)
(* githubWebhookEventTrigger: creates a server, stores it, listens.        *)
(***************************************************************************)
Start ==
  /\ created < MaxStarts
  /\ created' = created + 1
  /\ server' = created + 1
  /\ listening' = listening \cup {created + 1}
  /\ UNCHANGED <<now, phase, req, built, calls, promise, waits, responses,
                 errorLog, unhandled, normalizeVars>>

\* A delivery arrives at a listening server; deliveries are numbered in the
\* order of their arrival.
Receive(r) ==
  /\ listening # {}
  /\ phase[r] = "idle"
  /\ \A q \in Requests : q < r => phase[q] # "idle"
  /\ \E s \in SigCases, n \in EventKinds :
       \E p \in ListenerPayloads(n) :
         req' = [req EXCEPT ![r] = {[sig |-> s, name |-> n, payload |-> p]}]
  /\ phase' = [phase EXCEPT ![r] = "received"]
  /\ UNCHANGED <<server, created, listening, now, built, calls, promise, waits,
                 responses, errorLog, unhandled, normalizeVars>>

\* The middleware verifies the signature before it emits the event.
VerifyStep(r) ==
  /\ phase[r] = "received"
  /\ IF Verify(Val(req[r]).sig)
     THEN /\ phase' = [phase EXCEPT ![r] = "verified"]
          /\ UNCHANGED responses
     ELSE /\ phase' = [phase EXCEPT ![r] = "rejected"]
          /\ responses' = [responses EXCEPT ![r] = Append(@, AuthErrorStatus)]
  /\ UNCHANGED <<server, created, listening, now, req, built, calls, promise,
                 waits, errorLog, unhandled, normalizeVars>>

(***************************************************************************)
(* handleWebhookEvent(event), run by the middleware for a verified event.  *)
(* The delivery id of the event (event.id) is the request's number.        *)
(* Date.now() returns t, the millisecond of the last reading or a later    *)
(* one.                                                                    *)
(***************************************************************************)
HandleWebhookEvent(r) ==
  /\ phase[r] = "verified"
  /\ \E e \in req[r] : \E n \in {Normalize(e.name, e.payload)} :
       IF n.threw
       THEN /\ phase' = [phase EXCEPT ![r] = "failed"]
            /\ UNCHANGED <<now, built, calls, promise, waits, errorLog>>
       ELSE IF SwitchReturns(e.name)
       THEN /\ phase' = [phase EXCEPT ![r] = "handled"]
            /\ UNCHANGED <<now, built, calls, promise, waits, errorLog>>
       ELSE \E t \in now..MaxNow, throwsSync \in BOOLEAN :
              \E res \in {TryCreateEvent(
                            [eventContext |-> EventContext(e.name, r, t, n.data),
                             platformContext |->
                               PlatformContext(e.name, r, e.payload, n.data)],
                            throwsSync)} :
                /\ now' = t
                /\ built' = [built EXCEPT ![r] = n.data]
                /\ calls' = [calls EXCEPT ![r] = res.calls]
                /\ promise' = [promise EXCEPT ![r] = res.promise]
                /\ waits' = [waits EXCEPT ![r] = ReturnsPromise(res.promise)]
                /\ errorLog' = IF res.logged THEN errorLog \cup {r} ELSE errorLog
                /\ phase' = [phase EXCEPT ![r] = "handled"]
  /\ UNCHANGED <<server, created, listening, req, responses, unhandled,
                 normalizeVars>>

\* The middleware answers once the handler, and a promise it returned, is done.
Respond(r) ==
  /\ \/ /\ phase[r] = "handled"
        /\ ~waits[r] \/ promise[r] = "resolved"
        /\ responses' = [responses EXCEPT ![r] = Append(@, SuccessStatus)]
     \/ /\ \/ phase[r] = "failed"
           \/ phase[r] = "handled" /\ waits[r] /\ promise[r] = "rejected"
        /\ responses' = [responses EXCEPT ![r] = Append(@, InternalErrorStatus)]
  /\ phase' = [phase EXCEPT ![r] = "responded"]
  /\ UNCHANGED <<server, created, listening, now, req, built, calls, promise,
                 waits, errorLog, unhandled, normalizeVars>>

\* The downstream consumer completes the promise createEvent returned.
DispatchResolves(r) ==
  /\ promise[r] = "pending"
  /\ promise' = [promise EXCEPT ![r] = "resolved"]
  /\ UNCHANGED <<server, created, listening, now, phase, req, built, calls,
                 waits, responses, errorLog, unhandled, normalizeVars>>

\* The downstream consumer fails after the call returned: the promise
\* rejects, and a rejection nobody waits for is an unhandled rejection.
DispatchRejects(r) ==
  /\ promise[r] = "pending"
  /\ promise' = [promise EXCEPT ![r] = "rejected"]
  /\ unhandled' = IF waits[r] THEN unhandled ELSE unhandled \cup {r}
  /\ UNCHANGED <<server, created, listening, now, phase, req, built, calls,
                 waits, responses, errorLog, normalizeVars>>

Next ==
  \/ Start
  \/ \E r \in Requests : Receive(r)
  \/ \E r \in Requests : VerifyStep(r)
  \/ \E r \in Requests : HandleWebhookEvent(r)
  \/ \E r \in Requests : Respond(r)
  \/ \E r \in Requests : DispatchResolves(r)
  \/ \E r \in Requests : DispatchRejects(r)

Spec == Init /\ [][Next]_vars

(***************************************************************************)
(* The listener in service: the runtime has registered the trigger and     *)
(* started it once, and deliveries are handled from then on.               *)
(***************************************************************************)
InitServing ==
  /\ server = 1
  /\ created = 1
  /\ listening = {1}
  /\ now = 0
  /\ phase = [r \in Requests |-> "idle"]
  /\ req = [r \in Requests |-> {}]
  /\ built = [r \in Requests |-> {}]
  /\ calls = [r \in Requests |-> <<>>]
  /\ promise = [r \in Requests |-> "none"]
  /\ waits = [r \in Requests |-> FALSE]
  /\ responses = [r \in Requests |-> <<>>]
  /\ errorLog = {}
  /\ unhandled = {}
  /\ InitIdleNormalize

NextServing ==
  \/ \E r \in Requests : Receive(r)
  \/ \E r \in Requests : VerifyStep(r)
  \/ \E r \in Requests : HandleWebhookEvent(r)
  \/ \E r \in Requests : Respond(r)
  \/ \E r \in Requests : DispatchResolves(r)
  \/ \E r \in Requests : DispatchRejects(r)

SpecServing == InitServing /\ [][NextServing]_vars

\* The event loop runs every continuation that is ready; the downstream
\* consumer is under no obligation to complete.
SpecServingFair ==
  /\ SpecServing
  /\ \A r \in Requests :
       /\ WF_vars(VerifyStep(r))
       /\ WF_vars(HandleWebhookEvent(r))
       /\ WF_vars(Respond(r))

(***************************************************************************)
(* Normaliser run: the switch applied to one arbitrary input.              *)
(***************************************************************************)
InitNormalize ==
  /\ InitListener
  /\ nKind \in EventKinds
  /\ nPayload \in PayloadsOf(nKind)
  /\ nResult = {}

NormalizeStep ==
  /\ nResult = {}
  /\ nResult' = {Normalize(nKind, nPayload)}
  /\ UNCHANGED <<nKind, nPayload, listenerVars>>

NextNormalize == NormalizeStep

SpecNormalize == InitNormalize /\ [][NextNormalize]_vars

(***************************************************************************)
(* What the properties below are stated with.                              *)
(***************************************************************************)
\* The value found in an object by following a path of property names;
\* undefined as soon as one step of the path is missing.
RECURSIVE PathVal(_, _)
PathVal(m, path) ==
  IF path = <<>> THEN m
  ELSE IF m = {} THEN {}
  ELSE PathVal(Val(m)[Head(path)], Tail(path))

\* Field of the record -> path in the payload, for the fields that are
\* copied as they are.
FieldPaths(kind) ==
  CASE kind = "pull_request" ->
         [action |-> <<"action">>, prNumber |-> <<"number">>,
          prTitle |-> <<"pull_request", "title">>,
          prBody |-> <<"pull_request", "body">>,
          author |-> <<"pull_request", "user", "login">>,
          merged |-> <<"pull_request", "merged">>,
          repository |-> <<"repository", "full_name">>]
    [] kind = "push" ->
         [ref |-> <<"ref">>, repository |-> <<"repository", "full_name">>,
          pusher |-> <<"pusher", "name">>]
    [] kind = "release" ->
         [action |-> <<"action">>, releaseTag |-> <<"release", "tag_name">>,
          releaseName |-> <<"release", "name">>,
          releasedBy |-> <<"release", "author", "login">>,
          repository |-> <<"repository", "full_name">>,
          releaseBody |-> <<"release", "body">>]

RecordFields(kind) ==
  DOMAIN FieldPaths(kind) \cup (IF kind = "push" THEN {"commits"} ELSE {})

\* rec is the record of the payload: every field has the payload's value,
\* and is absent where the payload has none.
IsRecordOf(kind, payload, rec) ==
  /\ DOMAIN rec = RecordFields(kind)
  /\ \A f \in DOMAIN FieldPaths(kind) :
       rec[f] = PathVal({payload}, FieldPaths(kind)[f])
  /\ kind = "push" =>
       /\ rec.commits = {} <=> payload.commits = {}
       /\ rec.commits # {} =>
            /\ DOMAIN Val(rec.commits) = DOMAIN Val(payload.commits)
            /\ \A i \in DOMAIN Val(rec.commits) :
                 Val(rec.commits)[i].author =
                   PathVal({Val(payload.commits)[i]}, <<"author", "name">>)

Verified(r) == req[r] # {} /\ Val(req[r]).sig = "valid"

Answered(r) == phase[r] \in {"rejected", "responded"}

(***************************************************************************)
(* C2: a verified delivery of a kind other than pull_request, push and     *)
(* release builds no record and no envelope, never reaches createEvent,    *)
(* and is answered with the success status.                                *)
(***************************************************************************)
C2_UnsupportedKindDropped ==
  \A r \in Requests :
    (Verified(r) /\ Val(req[r]).name \notin {"pull_request", "push", "release"}) =>
      /\ built[r] = {}
      /\ calls[r] = <<>>
      /\ promise[r] = "none"
      /\ responses[r] \in {<<>>, <<200>>}
      /\ phase[r] = "responded" => responses[r] = <<200>>

C2_Witness ==
  \E r \in Requests :
    /\ Verified(r)
    /\ Val(req[r]).name = "issues"
    /\ phase[r] = "responded"
    /\ responses[r] = <<200>>
    /\ calls[r] = <<>>

(***************************************************************************)
(* C3: every request gets exactly one HTTP response (none while it is      *)
(* being handled, one once it is done) and at most one createEvent call;   *)
(* a createEvent call that failed is not made again.                       *)
(***************************************************************************)
C3_OneResponseOneDispatch ==
  \A r \in Requests :
    /\ Len(responses[r]) <= 1
    /\ Answered(r) <=> Len(responses[r]) = 1
    /\ Len(calls[r]) <= 1
    /\ promise[r] \in {"threw", "rejected"} => Len(calls[r]) = 1

C3_Witness ==
  \E r, q \in Requests :
    /\ r # q
    /\ promise[r] = "threw"
    /\ phase[r] = "responded"
    /\ Len(calls[r]) = 1
    /\ Len(responses[r]) = 1
    /\ phase[q] = "handled"
    /\ promise[q] = "rejected"

(***************************************************************************)
(* C4: a verified delivery of a supported kind is eventually answered,     *)
(* whatever the downstream consumer does with the dispatch (it may never   *)
(* complete), and the answer is the success status whether the dispatch    *)
(* succeeds, fails or stays pending.                                       *)
(***************************************************************************)
C4_ResponseIndependentOfDispatch ==
  /\ \A r \in Requests :
       (phase[r] = "verified" /\ Val(req[r]).name \in {"pull_request", "push", "release"})
         ~> (responses[r] # <<>>)
  /\ [](\A r \in Requests :
          (calls[r] # <<>> /\ responses[r] # <<>>) => responses[r] = <<200>>)

C4_Witness ==
  \E r, q \in Requests :
    /\ calls[r] # <<>>
    /\ promise[r] = "pending"
    /\ responses[r] = <<200>>
    /\ calls[q] # <<>>
    /\ promise[q] = "rejected"
    /\ responses[q] = <<200>>

(***************************************************************************)
(* C5: every failure of the downstream consumer, thrown by the createEvent *)
(* call or reported after it returned, is caught and logged by the         *)
(* listener and escapes to nobody else.                                    *)
(***************************************************************************)
C5_DispatchFailureCaughtAndLogged ==
  \A r \in Requests :
    promise[r] \in {"threw", "rejected"} => (r \in errorLog /\ r \notin unhandled)

(***************************************************************************)
(* C6: two distinct deliveries that are both dispatched have different     *)
(* envelope identifiers.                                                   *)
(***************************************************************************)
C6_EnvelopeIdsUnique ==
  \A r, q \in Requests :
    (r # q /\ calls[r] # <<>> /\ calls[q] # <<>>) =>
      calls[r][1].eventContext.id # calls[q][1].eventContext.id

(***************************************************************************)
(* C7: however often the trigger is started, at most one server is created *)
(* and bound, and the stored server is the first one.                      *)
(***************************************************************************)
C7_SingleServer ==
  /\ created <= 1
  /\ Cardinality(listening) <= 1
  /\ server \in {0, 1}

(***************************************************************************)
(* C8 as stated: every envelope has the platform tag "github" and a        *)
(* metadata part with the original payload, the delivery id and the event  *)
(* kind of its delivery.                                                   *)
(***************************************************************************)
C8_MetadataHasPayloadIdKind ==
  \A r \in Requests : \A i \in DOMAIN calls[r] :
    LET pc == calls[r][i].platformContext
    IN /\ pc.platform = "github"
       /\ DOMAIN pc.metadata = {"payload", "deliveryId", "eventKind"}
       /\ pc.metadata.payload = {Val(req[r]).payload}
       /\ pc.metadata.deliveryId = r
       /\ pc.metadata.eventKind = Val(req[r]).name

(***************************************************************************)
(* C8 amended: every envelope has the platform tag "github" and a metadata *)
(* part whose only property, payload, is the normalised record of its      *)
(* delivery (not the original payload; no delivery id, no event kind).     *)
(***************************************************************************)
C8_MetadataHasRecordOnly ==
  \A r \in Requests : \A i \in DOMAIN calls[r] :
    LET pc == calls[r][i].platformContext
    IN /\ pc.platform = "github"
       /\ DOMAIN pc.metadata = {"payload"}
       /\ pc.metadata.payload # {}
       /\ IsRecordOf(Val(req[r]).name, Val(req[r]).payload, Val(pc.metadata.payload))

C8_Witness ==
  \E r \in Requests :
    /\ Len(calls[r]) = 1
    /\ Val(req[r]).name = "release"
    /\ calls[r][1].platformContext.platform = "github"
    /\ Val(calls[r][1].platformContext.metadata.payload).releaseTag = {"v1.0"}
    /\ Val(calls[r][1].platformContext.metadata.payload).releasedBy = {"carol"}

(***************************************************************************)
(* C9: for pull_request, push and release and every payload with any       *)
(* subset of the expected fields and nested objects missing, the           *)
(* normalisation raises no error and yields the record of the payload:     *)
(* missing fields absent, present fields with the payload's value.         *)
(***************************************************************************)
C9_SparsePayloadsNormalize ==
  (nResult # {} /\ nKind \in {"pull_request", "push", "release"}) =>
    /\ ~Val(nResult).threw
    /\ Val(nResult).data # {}
    /\ IsRecordOf(nKind, nPayload, Val(Val(nResult).data))

C9_Witness ==
  /\ nResult # {}
  /\ nKind = "pull_request"
  /\ nPayload.pull_request = {}
  /\ nPayload.repository = {[full_name |-> {"org/repo"}]}
  /\ nPayload.action = {"opened"}
  /\ ~Val(nResult).threw
  /\ Val(Val(nResult).data).prTitle = {}
  /\ Val(Val(nResult).data).author = {}
  /\ Val(Val(nResult).data).repository = {"org/repo"}
  /\ Val(Val(nResult).data).action = {"opened"}

(***************************************************************************)
(* C10: a push payload with n commits yields a commits sequence of n       *)
(* entries, entry i with the id, message and author name of commit i; an   *)
(* empty list yields the empty sequence, not an absent field.              *)
(***************************************************************************)
C10_CommitsMappedInOrder ==
  (nResult # {} /\ nKind = "push" /\ nPayload.commits # {}) =>
    /\ ~Val(nResult).threw
    /\ Val(nResult).data # {}
    /\ Val(Val(nResult).data).commits # {}
    /\ LET cs == Val(nPayload.commits)
           out == Val(Val(Val(nResult).data).commits)
       IN /\ Len(out) = Len(cs)
          /\ \A i \in 1..Len(cs) :
               /\ out[i].id = cs[i].id
               /\ out[i].message = cs[i].message
               /\ out[i].author =
                    (IF cs[i].author = {} THEN {} ELSE Val(cs[i].author).name)

C10_Witness ==
  /\ nResult # {}
  /\ nKind = "push"
  /\ nPayload.commits # {}
  /\ Len(Val(nPayload.commits)) = 2
  /\ Val(nPayload.commits)[1].id = {"a1"}
  /\ Val(nPayload.commits)[2].id = {"b2"}
  /\ Val(nPayload.commits)[2].author = {[name |-> {"bob"}]}
  /\ Val(Val(Val(nResult).data).commits)[1].id = {"a1"}
  /\ Val(Val(Val(nResult).data).commits)[2].id = {"b2"}
  /\ Val(Val(Val(nResult).data).commits)[2].author = {"bob"}

====
